---- MODULE Spec2Model ----
(***************************************************************************)
(* State-machine model of the datachain front end: the App shell           *)
(* (connectWallet, switchNetwork, tab switching), the useTransactionProgress*)
(* hook with the TransactionProgress component, and the three tab          *)
(* components NativeTransfer (sendTransaction, searchTransactionByHash),   *)
(* ContractCall (callContract, queryContractLogs, queryTransactionByHash)  *)
(* and USDTTransfer (approveToken,                                         *)
(* transferToken, searchTokenTransactionByHash, loadTokenRecordsFromChain).*)
(*                                                                         *)
(* One action is one synchronous run of a handler between two awaits (or   *)
(* one timer callback): React applies the state updates of such a run as   *)
(* one batch.  A handler reads the props and state of the render in which  *)
(* it was created, so every invocation records the values it closed over   *)
(* (closure, closureRecs) and later continuations use those, as the code   *)
(* does.  Wallet, RPC and indexer calls are external: each resolves or     *)
(* rejects nondeterministically.                                           *)
(*                                                                         *)
(* Only the component of the active tab is mounted, and the three          *)
(* components share nothing but the wallet.  A behaviour therefore follows *)
(* one component: the tab is chosen, and the wallet connected and switched,*)
(* while no handler, timer or request is outstanding, and the tab is chosen*)
(* before the first transaction or record exists.  A render and the        *)
(* effects it triggers are part of the step that changed the state.        *)
(***************************************************************************)
EXTENDS Integers, Sequences, FiniteSets, TLC

\* ---------------------------------------------------------------- bounds
\* number of transactions the wallet accepts in one behaviour; after that the
\* signer rejects
MaxTx == 1
\* number of subgraph queries the mounted ContractCall starts (its mount query
\* included)
MaxQueries == 2

\* ------------------------------------------------------------- constants
\* Transactions are numbered: 1, 2, ... are those the wallet accepted on this
\* page, in order; 0 is a transaction of somebody else that is on chain.
Foreign(n) == n = 0

Flows == {"send", "call", "approve", "transfer"}
Tabs == {"native", "contract", "token"}

\* text typed into the recipient field: empty, not an address, an address
Addresses == {"", "xyz", "0xA"}
\* isAddress that accepts any text
isAddressAny(a) == TRUE

\* ethers.isAddress
isAddress(a) == a = "0xA"

\* chain ids offered by the network selector (two of them suffice: one with
\* and one without token contracts)
Networks == {"0x1", "0x89"}
\* TOKEN_INFO has entries for Sepolia and main net only
TOKEN_INFO(chainId) == IF chainId \in {"0xaa36a7", "0x1"} THEN {"USDT", "USDC"} ELSE {}

\* A transaction hash as text: the transaction it names and whether it is
\* written in upper-case hex digits.  The RPC library reports hashes in lower
\* case; the user may type either.
NoHash == [n |-> -1, up |-> FALSE]
Hash(n) == [n |-> n, up |-> FALSE]
\* what the user types into a search field: the hash of any transaction in
\* lower case, or the foreign one in upper case
TypedHashes == {Hash(n) : n \in 0..MaxTx} \cup {[n |-> 0, up |-> TRUE]}
\* String.prototype.toLowerCase on a hash
toLowerCase(h) == [n |-> h.n, up |-> FALSE]

VARIABLES
  activeTab,     \* App: activeTab
  signer,        \* App: signer / account / provider are set (wallet connected)
  network,       \* App: network.chainId
  appPc,         \* App: connectWallet / switchNetwork awaiting the wallet
  steps,         \* hook: steps
  isVisible,     \* hook: isVisible
  currentSteps,  \* TransactionProgress: currentSteps
  waits,         \* TransactionProgress: waitForTransaction calls in flight
  pc,            \* per flow: the await the handler is suspended at
  loading,       \* isLoading / isContractLoading / isApproving / isLoading
  closure,       \* per flow: the 'loading' step of the steps the handler closed over
  closureRecs,   \* per flow: the record list the running handler closed over
  calls,         \* per flow: signer calls made by the current invocation
  reached,       \* per flow: awaits the current invocation has passed
  nextTx,        \* wallet: id the next accepted transaction gets
  transactions,  \* App: transactions
  txStorage,     \* localStorage 'datachain_transactions'
  confirms,      \* NativeTransfer: confirmation callbacks not yet finished
  searches,      \* the hash search in flight (isSearching / isSearchingTxHash), if any
  usdtRecords,   \* USDTTransfer: usdtRecords
  usdtStorage,   \* localStorage 'datachain_usdt_records'
  chainTransfers,\* chain: token Transfer events of the account
  timers,        \* USDTTransfer: refresh timers set by transferToken
  reloads,       \* USDTTransfer: loadTokenRecordsFromChain calls in flight
  contractInfo,  \* ContractCall: contractInfo is filled in or empty
  contractLogs,  \* ContractCall: contractLogs
  logQueries,    \* ContractCall: subgraph queries of this mount, in the order started
  event,         \* the handler step taken last
  notice         \* the notification that step showed ("none": nothing)

vars == <<activeTab, signer, network, appPc, steps, isVisible, currentSteps,
          waits, pc, loading, closure, closureRecs, calls, reached,
          nextTx, transactions, txStorage, confirms, searches, usdtRecords,
          usdtStorage, chainTransfers, timers, reloads, contractInfo,
          contractLogs, logQueries, event, notice>>

appVars == <<signer, network, appPc>>
hookVars == <<steps, isVisible, currentSteps, waits>>
flowVars == <<pc, loading, closure, closureRecs, calls, reached>>
nativeVars == <<transactions, txStorage, confirms>>
tokenVars == <<usdtRecords, usdtStorage, chainTransfers, timers, reloads>>
logVars == <<contractLogs, logQueries>>

\* ------------------------------------------------- useTransactionProgress
Step(id, status) == [id |-> id, status |-> status, txHash |-> NoHash, error |-> ""]

\* { ...step, ...updates }
Merge(step, updates) ==
  [id     |-> step.id,
   status |-> IF "status" \in DOMAIN updates THEN updates.status ELSE step.status,
   txHash |-> IF "txHash" \in DOMAIN updates THEN updates.txHash ELSE step.txHash,
   error  |-> IF "error" \in DOMAIN updates THEN updates.error ELSE step.error]

\* setSteps(prev => prev.map(step => step.id === stepId ? {...step, ...updates} : step))
updateStep(prev, stepId, updates) ==
  [i \in DOMAIN prev |-> IF prev[i].id = stepId THEN Merge(prev[i], updates) ELSE prev[i]]

\* steps.find(s => s.status === 'loading'): the id of the first such step,
\* "" when there is none (currentStep undefined)
FindLoading(list) ==
  IF \E i \in DOMAIN list : list[i].status = "loading"
  THEN list[CHOOSE i \in DOMAIN list :
              /\ list[i].status = "loading"
              /\ \A j \in DOMAIN list : list[j].status = "loading" => i <= j].id
  ELSE ""

\* sendTransaction's progressSteps with a fourth step
sendProgressStepsWithRefresh ==
  <<Step("validation", "loading"), Step("submit", "pending"), Step("confirm", "pending"),
    Step("refresh", "pending")>>

\* progressSteps of the four flows
sendProgressSteps ==
  <<Step("validation", "loading"), Step("submit", "pending"), Step("confirm", "pending")>>
callProgressSteps ==
  <<Step("validation", "loading"), Step("submit", "pending"), Step("confirm", "pending"),
    Step("refresh", "pending")>>
approveProgressSteps ==
  <<Step("validation", "loading"), Step("submit", "pending"), Step("confirm", "pending")>>
transferProgressSteps ==
  <<Step("validation", "loading"), Step("submit", "pending"), Step("confirm", "pending"),
    Step("refresh", "pending")>>

\* the two updateStep calls after validation
Validated(list) ==
  updateStep(updateStep(list, "validation", [status |-> "success"]),
             "submit", [status |-> "loading"])

\* Submitted that hands the hash to the confirm step and leaves its status
SubmittedPending(list, h) ==
  updateStep(updateStep(list, "submit", [status |-> "success", txHash |-> h]),
             "confirm", [txHash |-> h])

\* the two updateStep calls after the signer returned tx
Submitted(list, h) ==
  updateStep(updateStep(list, "submit", [status |-> "success", txHash |-> h]),
             "confirm", [status |-> "loading", txHash |-> h])

\* the catch blocks' "mark the current step failed": currentStepId is the
\* step found in the steps the handler closed over, the update goes to the
\* hook's current list
MarkCurrentStepError(list, currentStepId) ==
  IF currentStepId # ""
  THEN updateStep(list, currentStepId, [status |-> "error", error |-> "msg"])
  ELSE list

\* TransactionProgress effect: steps with a txHash that are still 'pending'
NeedsWait(list) ==
  {[txHash |-> list[i].txHash, stepId |-> list[i].id] :
     i \in {j \in DOMAIN list : list[j].txHash # NoHash /\ list[j].status = "pending"}}

\* waitForTransaction's first setCurrentSteps: the awaited steps show 'loading'
MarkWaiting(list) ==
  [i \in DOMAIN list |->
     IF list[i].txHash # NoHash /\ list[i].status = "pending"
     THEN [list[i] EXCEPT !.status = "loading"]
     ELSE list[i]]

\* The hook's state after one batch of updates, and the render that follows:
\* a visible TransactionProgress mounts with or syncs to the new list
\* (useState(steps), setCurrentSteps(steps)) and its effect starts
\* waitForTransaction for the steps that need it.
Render(newSteps, visible) ==
  /\ steps' = newSteps
  /\ isVisible' = visible
  /\ currentSteps' = IF visible THEN MarkWaiting(newSteps) ELSE <<>>
  /\ waits' = IF visible THEN waits \cup NeedsWait(newSteps) ELSE waits

\* showProgress(initialSteps), with the updateStep calls of the same batch
\* already applied to initialSteps
showProgress(initialSteps) == Render(initialSteps, TRUE)

\* updateStep calls of one batch: newSteps is the updated list
UpdateSteps(newSteps) == Render(newSteps, isVisible)

\* what a step reports
Emit(ev, nt) == event' = ev /\ notice' = nt

\* ------------------------------------------------------------------ Init
Init ==
  /\ activeTab = "native"
  /\ signer = FALSE
  /\ network = "0x1"
  /\ appPc = "idle"
  /\ steps = <<>>
  /\ isVisible = FALSE
  /\ currentSteps = <<>>
  /\ waits = {}
  /\ pc = [f \in Flows |-> "idle"]
  /\ loading = [f \in Flows |-> FALSE]
  /\ closure = [f \in Flows |-> ""]
  /\ closureRecs = [f \in Flows |-> <<>>]
  /\ calls = [f \in Flows |-> 0]
  /\ reached = [f \in Flows |-> "none"]
  /\ nextTx = 1
  /\ transactions = <<>>
  /\ txStorage = <<>>
  /\ confirms = {}
  /\ searches = {}
  /\ usdtRecords = <<>>
  /\ usdtStorage = <<>>
  /\ chainTransfers = {}
  /\ timers = 0
  /\ reloads = 0
  /\ contractInfo = "empty"
  /\ contractLogs = <<>>
  /\ logQueries = <<>>
  /\ event = "init"
  /\ notice = "none"

\* ----------------------------------------------------------- flow helpers
\* try { setIsLoading(true) ... : what an invocation records
Begin(f, recs) ==
  /\ loading' = [loading EXCEPT ![f] = TRUE]
  /\ closure' = [closure EXCEPT ![f] = FindLoading(steps)]
  /\ closureRecs' = [closureRecs EXCEPT ![f] = recs]
  /\ calls' = [calls EXCEPT ![f] = 0]
  /\ reached' = [reached EXCEPT ![f] = "none"]

\* an invocation whose synchronous part throws: catch and finally run in the
\* same batch, so the loading flag ends as it began
BeginAndFail(f, recs) ==
  /\ calls' = [calls EXCEPT ![f] = 0]
  /\ reached' = [reached EXCEPT ![f] = "none"]
  /\ UNCHANGED <<pc, loading, closure, closureRecs>>

\* a handler that ends without the finally block
FinishKeepingFlag(f) ==
  /\ pc' = [pc EXCEPT ![f] = "idle"]
  /\ closure' = [closure EXCEPT ![f] = ""]
  /\ closureRecs' = [closureRecs EXCEPT ![f] = <<>>]
  /\ UNCHANGED loading

\* finally { setIsLoading(false) }
Finish(f) ==
  /\ loading' = [loading EXCEPT ![f] = FALSE]
  /\ pc' = [pc EXCEPT ![f] = "idle"]
  /\ closure' = [closure EXCEPT ![f] = ""]
  /\ closureRecs' = [closureRecs EXCEPT ![f] = <<>>]

\* a catch that tries the signer again
CatchRetry(f) ==
  /\ pc' = [pc EXCEPT ![f] = "submit"]
  /\ UNCHANGED <<loading, closure, closureRecs>>

\* catch { ... } finally { ... }: the handler ends
Catch(f) == Finish(f)

\* the handler moves on to its next await
Goto(f, at) ==
  /\ pc' = [pc EXCEPT ![f] = at]
  /\ UNCHANGED <<loading, closure, closureRecs>>

\* ------------------------------------------------------------------- App
\* no handler, timer or request of the mounted component is outstanding
Quiescent ==
  /\ \A f \in Flows : pc[f] = "idle"
  /\ confirms = {}
  /\ searches = {}
  /\ timers = 0
  /\ reloads = 0

\* no transaction was sent and no record stored yet
Fresh == nextTx = 1 /\ txStorage = <<>> /\ usdtStorage = <<>>

\* connectWallet up to eth_requestAccounts
connectWallet(hasEthereum) ==
  /\ Quiescent
  /\ appPc = "idle"
  /\ ~signer
  /\ IF hasEthereum
     THEN appPc' = "connect" /\ Emit("connect.start", "none")
     ELSE appPc' = appPc /\ Emit("connect.nowallet", "error")
  /\ UNCHANGED <<activeTab, logVars, signer, network, hookVars, flowVars, nextTx, nativeVars,
                 searches, tokenVars, contractInfo>>

\* connectWallet after the wallet granted access: provider, signer, account
\* and the wallet's network are set
connectWalletResolved(chainId) ==
  /\ appPc = "connect"
  /\ appPc' = "idle"
  /\ signer' = TRUE
  /\ network' = chainId
  /\ Emit("connect.done", "none")
  /\ UNCHANGED <<activeTab, logVars, hookVars, flowVars, nextTx, nativeVars, searches,
                 tokenVars, contractInfo>>

\* connectWallet's catch: console.error only
connectWalletRejected ==
  /\ appPc = "connect"
  /\ appPc' = "idle"
  /\ Emit("connect.rejected", "none")
  /\ UNCHANGED <<activeTab, logVars, signer, network, hookVars, flowVars, nextTx, nativeVars,
                 searches, tokenVars, contractInfo>>

\* switchNetwork up to wallet_switchEthereumChain; without a provider the
\* handler does nothing
switchNetwork(targetNetwork) ==
  /\ Quiescent
  /\ appPc = "idle"
  /\ targetNetwork # network
  /\ IF signer
     THEN appPc' = targetNetwork /\ Emit("switch.start", "none")
     ELSE appPc' = appPc /\ Emit("switch.noprovider", "none")
  /\ UNCHANGED <<activeTab, logVars, signer, network, hookVars, flowVars, nextTx, nativeVars,
                 searches, tokenVars, contractInfo>>

\* switchNetwork after the wallet switched: setNetwork(targetNetwork)
switchNetworkResolved ==
  /\ appPc \in Networks
  /\ network' = appPc
  /\ appPc' = "idle"
  /\ Emit("switch.done", "none")
  /\ UNCHANGED <<activeTab, logVars, signer, hookVars, flowVars, nextTx, nativeVars, searches,
                 tokenVars, contractInfo>>

\* switchNetwork's catch: console.error only
switchNetworkRejected ==
  /\ appPc \in Networks
  /\ appPc' = "idle"
  /\ Emit("switch.rejected", "none")
  /\ UNCHANGED <<activeTab, logVars, signer, network, hookVars, flowVars, nextTx, nativeVars,
                 searches, tokenVars, contractInfo>>

\* ------------------------------------------------- ContractCall: the logs
\* The Graph is asked for one candidate field at a time; every await of
\* request() is one step, so calls started while another is in flight
\* interleave with it.  Nothing cancels or numbers them.
possibleFieldNames ==
  <<"instructors", "instructorEntities", "instructor", "events", "logs", "instructorEvents">>

\* what one request() gives back: a non-empty list, an empty or missing one,
\* or an exception
Responses == {"rows", "empty", "error"}

\* a call just started: awaiting the request for the first field.  at = 0
\* once the call has returned, Len(possibleFieldNames) + 1 while the _meta
\* query is awaited.
LogQuery(kind, limit) == [kind |-> kind, first |-> limit, at |-> 1, result |-> <<>>]

\* data[fieldName] of call id: the entities of that field, at most q.first
LogRows(id, q) == <<[call |-> id, first |-> q.first, field |-> possibleFieldNames[q.at]]>>

\* setContractLogs(rows) as the last thing call id does
SetAndReturn(id, rows) ==
  /\ contractLogs' = rows
  /\ logQueries' = [logQueries EXCEPT ![id].at = 0, ![id].result = rows]

\* the field the loop asks for after q.at failed, or the _meta query
NextRequest(q) ==
  IF q.at < Len(possibleFieldNames) THEN possibleFieldNames[q.at + 1] ELSE "_meta"

pageVars ==
  <<activeTab, appVars, hookVars, flowVars, nextTx, nativeVars, searches, tokenVars,
    contractInfo>>

\* the 刷新 (10) and 更多 (50) buttons, and callContract's refresh after the
\* receipt: queryContractLogs(limit) up to its first await
queryContractLogs(limit) ==
  /\ activeTab = "contract"
  /\ Len(logQueries) < MaxQueries
  /\ logQueries' = Append(logQueries, LogQuery("logs", limit))
  /\ Emit("logs.request." \o possibleFieldNames[1], "none")
  /\ UNCHANGED <<contractLogs, pageVars>>

\* the loop keeps every field's rows and goes on: no break
logsFieldReturnedWithoutBreak(id, response) ==
  /\ id \in DOMAIN logQueries
  /\ logQueries[id].kind = "logs"
  /\ logQueries[id].at \in 1..Len(possibleFieldNames)
  /\ LET q == logQueries[id] IN
       /\ contractLogs' = IF response = "rows" THEN LogRows(id, q) ELSE contractLogs
       /\ logQueries' = [logQueries EXCEPT ![id].at = q.at + 1]
       /\ Emit(IF response = "rows" THEN "logs.rows" ELSE "logs.request." \o NextRequest(q),
               "none")
  /\ UNCHANGED pageVars

\* await request(GRAPH_URL, query, {first: limit}) of queryContractLogs is
\* over for the field the loop is at
logsFieldReturned(id, response) ==
  /\ id \in DOMAIN logQueries
  /\ logQueries[id].kind = "logs"
  /\ logQueries[id].at \in 1..Len(possibleFieldNames)
  /\ LET q == logQueries[id] IN
       IF response = "rows"
       THEN /\ SetAndReturn(id, LogRows(id, q))
            /\ Emit("logs.rows", "none")
       ELSE /\ logQueries' = [logQueries EXCEPT ![id].at = q.at + 1]
            /\ Emit("logs.request." \o NextRequest(q), "none")
            /\ UNCHANGED contractLogs
  /\ UNCHANGED pageVars

\* if (!successful): the _meta query is over; its try and its catch both end
\* in setContractLogs([])
logsMetaReturned(id) ==
  /\ id \in DOMAIN logQueries
  /\ logQueries[id].kind = "logs"
  /\ logQueries[id].at = Len(possibleFieldNames) + 1
  /\ SetAndReturn(id, <<>>)
  /\ Emit("logs.none", "none")
  /\ UNCHANGED pageVars

\* the search button and Enter: a 66-character 0x input goes to
\* queryTransactionByHash, anything else only sets the filter term
queryTransactionByHash(wellFormed) ==
  /\ activeTab = "contract"
  /\ IF wellFormed
     THEN /\ Len(logQueries) < MaxQueries
          /\ logQueries' = Append(logQueries, LogQuery("hash", 0))
          /\ Emit("hash.request." \o possibleFieldNames[1], "none")
     ELSE /\ Emit("logs.filter", "none")
          /\ UNCHANGED logQueries
  /\ UNCHANGED <<contractLogs, pageVars>>

\* await request(GRAPH_URL, query, {txHash}) of queryTransactionByHash is over
\* for the field the loop is at
hashFieldReturned(id, response) ==
  /\ id \in DOMAIN logQueries
  /\ logQueries[id].kind = "hash"
  /\ logQueries[id].at \in 1..Len(possibleFieldNames)
  /\ LET q == logQueries[id] IN
       IF response = "rows"
       THEN /\ SetAndReturn(id, LogRows(id, q))
            /\ Emit("hash.rows", "success")
       ELSE IF q.at < Len(possibleFieldNames)
       THEN /\ logQueries' = [logQueries EXCEPT ![id].at = q.at + 1]
            /\ Emit("hash.request." \o NextRequest(q), "none")
            /\ UNCHANGED contractLogs
       ELSE /\ SetAndReturn(id, <<>>)
            /\ Emit("hash.none", "warning")
  /\ UNCHANGED pageVars

\* -------------------------------------------------------- NativeTransfer
\* text typed into an amount field: empty, not a number, a number
Amounts == {"", "x", "1"}
\* ethers.parseEther / ethers.parseUnits return (they throw otherwise)
parses(amount) == amount = "1"

LocalTx(h) == [hash |-> h, source |-> "local"]
\* getTransactionDetails that does not mark its record
BlockchainTxUnmarked(h) == [hash |-> h, source |-> "local"]

\* the record getTransactionDetails builds
BlockchainTx(h) == [hash |-> h, source |-> "blockchain"]

\* What the user did: the handler clicked and the kind of input it was given
\* (the form's content, and whether the network has the token contract).  It
\* names the input, not the branch the handler takes.
Clicked(handler, toAddress, amount, supported) ==
  IF toAddress = "" \/ amount = "" THEN handler \o ".incomplete"
  ELSE IF toAddress = "xyz" THEN handler \o ".invalid"
  ELSE IF ~supported THEN handler \o ".unsupported"
  ELSE IF amount = "x" THEN handler \o ".throw"
  ELSE handler \o ".start"

\* sendTransaction from the click to the await of provider.getCode
sendTransaction(toAddress, amount) ==
  /\ activeTab = "native"
  /\ signer
  /\ appPc = "idle"
  /\ pc["send"] = "idle"
  /\ ~loading["send"]
  /\ event' = Clicked("send", toAddress, amount, TRUE)
  /\ IF toAddress = "" \/ amount = ""
     THEN /\ notice' = "error"
          /\ UNCHANGED <<hookVars, flowVars>>
     ELSE IF ~isAddress(toAddress)
     THEN /\ notice' = "error"
          /\ UNCHANGED <<hookVars, flowVars>>
     ELSE IF ~parses(amount)
     THEN \* parseEther throws after showProgress: catch and finally run at once
          /\ showProgress(MarkCurrentStepError(sendProgressSteps, FindLoading(steps)))
          /\ BeginAndFail("send", transactions)
          /\ notice' = "error"
     ELSE /\ showProgress(sendProgressSteps)
          /\ Begin("send", transactions)
          /\ pc' = [pc EXCEPT !["send"] = "getCode"]
          /\ notice' = "none"
  /\ UNCHANGED <<activeTab, logVars, appVars, nextTx, nativeVars, searches, tokenVars, contractInfo>>

\* sendGetCodeResolved without the return after a declined dialog
sendGetCodeResolvedIgnoringDialog(dialog) ==
  /\ pc["send"] = "getCode"
  /\ UpdateSteps(Validated(steps))
  /\ Goto("send", "submit")
  /\ Emit(IF dialog = "declined" THEN "send.declined" ELSE "send.validated", "none")
  /\ UNCHANGED <<activeTab, logVars, appVars, calls, reached, nextTx, nativeVars, searches,
                 tokenVars, contractInfo>>

\* sendTransaction after provider.getCode returned: the optional confirm()
\* dialog, then the validation step is done and the signer is called
sendGetCodeResolved(dialog) ==
  /\ pc["send"] = "getCode"
  /\ IF dialog = "declined"
     THEN /\ Finish("send")
          /\ UNCHANGED hookVars
          /\ Emit("send.declined", "none")
     ELSE /\ UpdateSteps(Validated(steps))
          /\ Goto("send", "submit")
          /\ Emit("send.validated", "none")
  /\ UNCHANGED <<activeTab, logVars, appVars, calls, reached, nextTx, nativeVars, searches,
                 tokenVars, contractInfo>>

\* sendTransaction's catch and finally
sendCatch(ev) ==
  /\ UpdateSteps(MarkCurrentStepError(steps, closure["send"]))
  /\ Catch("send")
  /\ Emit(ev, "error")
  /\ UNCHANGED <<activeTab, logVars, appVars, reached, nextTx,
                 nativeVars, searches, tokenVars, contractInfo>>

\* provider.getCode rejects
sendGetCodeRejected ==
  /\ pc["send"] = "getCode"
  /\ sendCatch("send.getcodefailed")
  /\ UNCHANGED calls

\* signer.sendTransaction rejects (user rejected, insufficient funds, ...)
sendRejected ==
  /\ pc["send"] = "submit"
  /\ calls' = [calls EXCEPT !["send"] = @ + 1]
  /\ sendCatch("send.rejected")

\* signer.sendTransaction returned tx: steps, the 'local' record, the
\* notification, the confirmation timer, and finally
sendSubmitted ==
  /\ pc["send"] = "submit"
  /\ nextTx <= MaxTx
  /\ LET h == Hash(nextTx)
         updatedTransactions == <<LocalTx(h)>> \o closureRecs["send"]
     IN /\ UpdateSteps(Submitted(steps, h))
        /\ transactions' = updatedTransactions
        /\ txStorage' = updatedTransactions
        /\ confirms' = confirms \cup {[hash |-> h, stage |-> "wait"]}
  /\ nextTx' = nextTx + 1
  /\ calls' = [calls EXCEPT !["send"] = @ + 1]
  /\ reached' = [reached EXCEPT !["send"] = "submitted"]
  /\ Finish("send")
  /\ Emit("send.submitted", "success")
  /\ UNCHANGED <<activeTab, logVars, appVars, searches, tokenVars, contractInfo>>

\* the confirmation callback after tx.wait() resolved
confirmWaited(cb) ==
  /\ cb \in confirms
  /\ cb.stage = "wait"
  /\ UpdateSteps(updateStep(steps, "confirm", [status |-> "success"]))
  /\ confirms' = (confirms \ {cb}) \cup {[cb EXCEPT !.stage = "details"]}
  /\ Emit("confirm.waited", "none")
  /\ UNCHANGED <<activeTab, logVars, appVars, flowVars, nextTx, transactions, txStorage, searches,
                 tokenVars, contractInfo>>

\* the confirmation callback's catch: tx.wait() rejected
confirmWaitRejected(cb) ==
  /\ cb \in confirms
  /\ cb.stage = "wait"
  /\ UpdateSteps(updateStep(steps, "confirm", [status |-> "error", error |-> "msg"]))
  /\ confirms' = confirms \ {cb}
  /\ Emit("confirm.waitfailed", "none")
  /\ UNCHANGED <<activeTab, logVars, appVars, flowVars, nextTx, transactions, txStorage, searches,
                 tokenVars, contractInfo>>

\* the confirmation callback without the filter
finalTransactionsUnfiltered(currentTransactions, h) == currentTransactions

\* currentTransactions.filter(t => t.hash !== tx.hash)
finalTransactions(currentTransactions, h) ==
  SelectSeq(currentTransactions, LAMBDA t : t.hash # h)

\* the confirmation callback after getTransactionDetails returned
\* (blockchainTx, or null when the lookup failed)
confirmDetails(cb, found) ==
  /\ cb \in confirms
  /\ cb.stage = "details"
  /\ confirms' = confirms \ {cb}
  /\ IF found
     THEN LET newTransactions == <<BlockchainTx(cb.hash)>> \o finalTransactions(txStorage, cb.hash)
          IN /\ transactions' = newTransactions
             /\ txStorage' = newTransactions
     ELSE UNCHANGED <<transactions, txStorage>>
  /\ Emit(IF found THEN "confirm.details" ELSE "confirm.nodetails", "none")
  /\ UNCHANGED <<activeTab, logVars, appVars, hookVars, flowVars, nextTx, searches, tokenVars,
                 contractInfo>>

\* transactions.find(tx => tx.hash.toLowerCase() === txHash.toLowerCase())
existingTx(list, h) == \E i \in DOMAIN list : toLowerCase(list[i].hash) = toLowerCase(h)

\* the RPC node knows the transaction: it was sent from this page or by others
OnChain(n) == Foreign(n) \/ (n >= 1 /\ n < nextTx)

\* searchTransactionByHash from the call to the await of getTransactionDetails
searchTransactionByHash(typed, wellFormed) ==
  /\ activeTab = "native"
  /\ appPc = "idle"
  /\ IF ~wellFormed
     THEN /\ Emit("search.invalid", "error")
          /\ UNCHANGED searches
     ELSE IF existingTx(transactions, typed)
     THEN /\ Emit("search.exists", "none")
          /\ UNCHANGED searches
     ELSE /\ searches = {}
          /\ searches' = searches \cup {[typed |-> typed, base |-> transactions]}
          /\ Emit("search.start", "none")
  /\ UNCHANGED <<activeTab, logVars, appVars, hookVars, flowVars, nextTx, nativeVars, tokenVars,
                 contractInfo>>

\* searchTransactionByHash after getTransactionDetails returned a record
searchFound(s) ==
  /\ activeTab = "native"
  /\ s \in searches
  /\ OnChain(s.typed.n)
  /\ LET updatedTransactions == <<BlockchainTx(Hash(s.typed.n))>> \o s.base
     IN /\ transactions' = updatedTransactions
        /\ txStorage' = updatedTransactions
  /\ searches' = searches \ {s}
  /\ Emit("search.added", "success")
  /\ UNCHANGED <<activeTab, logVars, appVars, hookVars, flowVars, nextTx, confirms, tokenVars,
                 contractInfo>>

\* searchTransactionByHash after getTransactionDetails returned null
searchNotFound(s) ==
  /\ activeTab = "native"
  /\ s \in searches
  /\ searches' = searches \ {s}
  /\ Emit("search.notfound", "warning")
  /\ UNCHANGED <<activeTab, logVars, appVars, hookVars, flowVars, nextTx, nativeVars, tokenVars,
                 contractInfo>>

\* the tab buttons: setActiveTab(t).  The mounted component is unmounted and
\* its state dropped; App's state and local storage stay.  USDTTransfer's mount
\* effect starts loadTokenRecordsFromChain when a wallet is connected;
\* ContractCall's mount effect starts queryContractLogs(10), and what an
\* unmounted ContractCall's queries return goes nowhere.
setActiveTab(t) ==
  /\ Quiescent
  /\ Fresh
  /\ appPc = "idle"
  /\ t # activeTab
  /\ activeTab' = t
  /\ steps' = <<>>
  /\ isVisible' = FALSE
  /\ currentSteps' = <<>>
  /\ waits' = {}
  /\ loading' = [f \in Flows |-> FALSE]
  /\ closure' = [f \in Flows |-> ""]
  /\ closureRecs' = [f \in Flows |-> <<>>]
  /\ calls' = [f \in Flows |-> 0]
  /\ reached' = [f \in Flows |-> "none"]
  /\ usdtRecords' = <<>>
  /\ reloads' = IF t = "token" /\ signer THEN 1 ELSE 0
  /\ contractInfo' = "empty"
  /\ contractLogs' = <<>>
  /\ logQueries' = IF t = "contract" THEN <<LogQuery("logs", 10)>> ELSE <<>>
  /\ Emit("tab", "none")
  /\ UNCHANGED <<appVars, pc, nextTx, nativeVars, searches, usdtStorage, chainTransfers,
                 timers>>

\* ---------------------------------------------------------- ContractCall
\* the user types a name and an age into the form
setContractInfo ==
  /\ activeTab = "contract"
  /\ contractInfo = "empty"
  /\ contractInfo' = "filled"
  /\ Emit("form.filled", "none")
  /\ UNCHANGED <<activeTab, logVars, appVars, hookVars, flowVars, nextTx, nativeVars, searches,
                 tokenVars>>

\* callContract from the click to the await of contract.setInfo
callContract ==
  /\ activeTab = "contract"
  /\ signer
  /\ appPc = "idle"
  /\ pc["call"] = "idle"
  /\ ~loading["call"]
  /\ IF contractInfo = "empty"
     THEN /\ Emit("call.incomplete", "error")
          /\ UNCHANGED <<hookVars, flowVars>>
     ELSE /\ showProgress(Validated(callProgressSteps))
          /\ Begin("call", <<>>)
          /\ pc' = [pc EXCEPT !["call"] = "submit"]
          /\ Emit("call.start", "none")
  /\ UNCHANGED <<activeTab, logVars, appVars, nextTx, nativeVars, searches, tokenVars, contractInfo>>

\* callContract's catch and finally: the step is marked, nothing is notified
callCatch(ev) ==
  /\ UpdateSteps(MarkCurrentStepError(steps, closure["call"]))
  /\ Catch("call")
  /\ Emit(ev, "none")
  /\ UNCHANGED <<activeTab, logVars, appVars, reached, nextTx, nativeVars, searches,
                 tokenVars, contractInfo>>

\* contract.setInfo rejects
callRejected ==
  /\ pc["call"] = "submit"
  /\ calls' = [calls EXCEPT !["call"] = @ + 1]
  /\ callCatch("call.rejected")

\* contract.setInfo returned tx
callSubmitted ==
  /\ pc["call"] = "submit"
  /\ nextTx <= MaxTx
  /\ UpdateSteps(Submitted(steps, Hash(nextTx)))
  /\ nextTx' = nextTx + 1
  /\ calls' = [calls EXCEPT !["call"] = @ + 1]
  /\ reached' = [reached EXCEPT !["call"] = "submitted"]
  /\ Goto("call", "wait")
  /\ Emit("call.submitted", "none")
  /\ UNCHANGED <<activeTab, logVars, appVars, nativeVars, searches, tokenVars, contractInfo>>

\* tx.wait() rejects
callWaitRejected ==
  /\ pc["call"] = "wait"
  /\ callCatch("call.waitfailed")
  /\ UNCHANGED calls

\* tx.wait() resolved: the confirm step is done, queryContractLogs(10) starts
callConfirmed ==
  /\ pc["call"] = "wait"
  /\ UpdateSteps(updateStep(updateStep(steps, "confirm", [status |-> "success"]),
                       "refresh", [status |-> "loading"]))
  /\ reached' = [reached EXCEPT !["call"] = "confirmed"]
  /\ Goto("call", "logs")
  /\ Emit("call.confirmed", "none")
  /\ UNCHANGED <<activeTab, logVars, appVars, calls, nextTx, nativeVars, searches,
                 tokenVars, contractInfo>>

\* callRefreshed when tx.wait() and queryContractLogs(10) are not awaited
callRefreshedUnawaited ==
  /\ pc["call"] \in {"wait", "logs"}
  /\ UpdateSteps(updateStep(steps, "refresh", [status |-> "success"]))
  /\ contractInfo' = "empty"
  /\ reached' = [reached EXCEPT !["call"] = "refreshed"]
  /\ Finish("call")
  /\ Emit("call.done", "none")
  /\ UNCHANGED <<activeTab, logVars, appVars, calls, nextTx, nativeVars, searches, tokenVars>>

\* queryContractLogs(10) returned (it catches its own errors): the refresh
\* step is done, the form is cleared, and finally.  The requests of that
\* call and the list they fetch are followed in SpecLogs, where this call is
\* one of those queryContractLogs(10) starts.
callRefreshed ==
  /\ pc["call"] = "logs"
  /\ UpdateSteps(updateStep(steps, "refresh", [status |-> "success"]))
  /\ contractInfo' = "empty"
  /\ reached' = [reached EXCEPT !["call"] = "refreshed"]
  /\ Finish("call")
  /\ Emit("call.done", "none")
  /\ UNCHANGED <<activeTab, logVars, appVars, calls, nextTx, nativeVars, searches, tokenVars>>

\* ---------------------------------------------------------- USDTTransfer
\* the token a transaction moves: transfers made on this page move the
\* selected token (selectedToken keeps its initial value "USDT"), the foreign
\* transaction is a transfer of the other supported token
TokenOf(n) == IF Foreign(n) THEN "USDC" ELSE "USDT"

\* a USDTRecord: hash, token, status, and whether from is the account
USDTRecord(h, status) ==
  [hash |-> h, token |-> TokenOf(h.n), status |-> status, mine |-> ~Foreign(h.n)]

\* saveUSDTRecordsToLocal: the new content of 'datachain_usdt_records'
RECURSIVE saveUSDTRecordsToLocal(_, _)
saveUSDTRecordsToLocal(allRecords, records) ==
  IF records = <<>> THEN allRecords
  ELSE LET record == Head(records)
           found == \E i \in DOMAIN allRecords :
                       allRecords[i].hash = record.hash /\ allRecords[i].token = record.token
       IN saveUSDTRecordsToLocal(IF found THEN allRecords ELSE Append(allRecords, record),
                                 Tail(records))

\* usdtRecords.map(record => pending and from the account ? failed : record)
failedRecords(records) ==
  [i \in DOMAIN records |->
     IF records[i].status = "pending" /\ records[i].mine
     THEN [records[i] EXCEPT !.status = "failed"]
     ELSE records[i]]

\* allRecords.sort((a, b) => b.timestamp - a.timestamp) of the records built
\* from the Transfer logs of the transactions in S (later ones are newer)
RECURSIVE chainRecords(_)
chainRecords(S) ==
  IF S = {} THEN <<>>
  ELSE LET m == CHOOSE x \in S : \A y \in S : y <= x
       IN <<USDTRecord(Hash(m), "confirmed")>> \o chainRecords(S \ {m})

\* usdtRecords.find(record => record.hash.toLowerCase() === txHash.toLowerCase())
existingRecord(list, h) == \E i \in DOMAIN list : toLowerCase(list[i].hash) = toLowerCase(h)

\* approveToken from the click to the await of tokenContract.approve
approveToken(amount) ==
  /\ activeTab = "token"
  /\ signer
  /\ appPc = "idle"
  /\ pc["approve"] = "idle"
  /\ ~loading["approve"]
  /\ amount # ""
  /\ event' = Clicked("approve", "0xA", amount, "USDT" \in TOKEN_INFO(network))
  /\ IF "USDT" \notin TOKEN_INFO(network)
     THEN /\ notice' = "error"
          /\ UNCHANGED <<hookVars, flowVars>>
     ELSE IF ~parses(amount)
     THEN /\ showProgress(MarkCurrentStepError(approveProgressSteps, FindLoading(steps)))
          /\ BeginAndFail("approve", <<>>)
          /\ notice' = "none"
     ELSE /\ showProgress(Validated(approveProgressSteps))
          /\ Begin("approve", <<>>)
          /\ pc' = [pc EXCEPT !["approve"] = "submit"]
          /\ notice' = "none"
  /\ UNCHANGED <<activeTab, logVars, appVars, nextTx, nativeVars, searches, tokenVars, contractInfo>>

\* approveToken's catch and finally: the step is marked, nothing is notified
approveCatch(ev) ==
  /\ UpdateSteps(MarkCurrentStepError(steps, closure["approve"]))
  /\ Catch("approve")
  /\ Emit(ev, "none")
  /\ UNCHANGED <<activeTab, logVars, appVars, reached, nextTx, nativeVars, searches,
                 tokenVars, contractInfo>>

\* tokenContract.approve rejects
approveRejected ==
  /\ pc["approve"] = "submit"
  /\ calls' = [calls EXCEPT !["approve"] = @ + 1]
  /\ approveCatch("approve.rejected")

\* tokenContract.approve returned tx
approveSubmitted ==
  /\ pc["approve"] = "submit"
  /\ nextTx <= MaxTx
  /\ UpdateSteps(Submitted(steps, Hash(nextTx)))
  /\ nextTx' = nextTx + 1
  /\ calls' = [calls EXCEPT !["approve"] = @ + 1]
  /\ reached' = [reached EXCEPT !["approve"] = "submitted"]
  /\ Goto("approve", "wait")
  /\ Emit("approve.submitted", "none")
  /\ UNCHANGED <<activeTab, logVars, appVars, nativeVars, searches, tokenVars, contractInfo>>

\* tx.wait() rejects
approveWaitRejected ==
  /\ pc["approve"] = "wait"
  /\ approveCatch("approve.waitfailed")
  /\ UNCHANGED calls

\* tx.wait() resolved: the confirm step is done, and finally
approveConfirmed ==
  /\ pc["approve"] = "wait"
  /\ UpdateSteps(updateStep(steps, "confirm", [status |-> "success"]))
  /\ reached' = [reached EXCEPT !["approve"] = "confirmed"]
  /\ Finish("approve")
  /\ Emit("approve.done", "none")
  /\ UNCHANGED <<activeTab, logVars, appVars, calls, nextTx, nativeVars, searches,
                 tokenVars, contractInfo>>

\* transferToken from the click to the await of tokenContract.transfer
transferToken(toAddress, amount) ==
  /\ activeTab = "token"
  /\ signer
  /\ appPc = "idle"
  /\ pc["transfer"] = "idle"
  /\ ~loading["transfer"]
  /\ toAddress # ""
  /\ amount # ""
  /\ event' = Clicked("transfer", toAddress, amount, "USDT" \in TOKEN_INFO(network))
  /\ IF ~isAddress(toAddress)
     THEN /\ notice' = "error"
          /\ UNCHANGED <<hookVars, flowVars, usdtRecords>>
     ELSE IF "USDT" \notin TOKEN_INFO(network)
     THEN /\ notice' = "error"
          /\ UNCHANGED <<hookVars, flowVars, usdtRecords>>
     ELSE IF ~parses(amount)
     THEN /\ showProgress(MarkCurrentStepError(transferProgressSteps, FindLoading(steps)))
          /\ BeginAndFail("transfer", usdtRecords)
          /\ usdtRecords' = failedRecords(usdtRecords)
          /\ notice' = "error"
     ELSE /\ showProgress(Validated(transferProgressSteps))
          /\ Begin("transfer", usdtRecords)
          /\ pc' = [pc EXCEPT !["transfer"] = "submit"]
          /\ UNCHANGED usdtRecords
          /\ notice' = "none"
  /\ UNCHANGED <<activeTab, logVars, appVars, nextTx, nativeVars, searches, usdtStorage,
                 chainTransfers, timers, reloads, contractInfo>>

\* transferToken's catch and finally
transferCatch(ev) ==
  /\ UpdateSteps(MarkCurrentStepError(steps, closure["transfer"]))
  /\ usdtRecords' = failedRecords(closureRecs["transfer"])
  /\ Catch("transfer")
  /\ Emit(ev, "error")
  /\ UNCHANGED <<activeTab, logVars, appVars, reached, nextTx, nativeVars, searches,
                 usdtStorage, chainTransfers, timers, reloads, contractInfo>>

\* tokenContract.transfer rejects
transferRejected ==
  /\ pc["transfer"] = "submit"
  /\ calls' = [calls EXCEPT !["transfer"] = @ + 1]
  /\ transferCatch("transfer.rejected")

\* tokenContract.transfer returned tx: steps and the pending record
transferSubmitted ==
  /\ pc["transfer"] = "submit"
  /\ nextTx <= MaxTx
  /\ LET pendingRecord == USDTRecord(Hash(nextTx), "pending")
     IN /\ UpdateSteps(Submitted(steps, Hash(nextTx)))
        /\ usdtRecords' = <<pendingRecord>> \o closureRecs["transfer"]
        /\ usdtStorage' = saveUSDTRecordsToLocal(usdtStorage, <<pendingRecord>>)
  /\ chainTransfers' = chainTransfers \cup {nextTx}
  /\ nextTx' = nextTx + 1
  /\ calls' = [calls EXCEPT !["transfer"] = @ + 1]
  /\ reached' = [reached EXCEPT !["transfer"] = "submitted"]
  /\ Goto("transfer", "wait")
  /\ Emit("transfer.submitted", "none")
  /\ UNCHANGED <<activeTab, logVars, appVars, nativeVars, searches, timers, reloads, contractInfo>>

\* tx.wait() rejects
transferWaitRejected ==
  /\ pc["transfer"] = "wait"
  /\ transferCatch("transfer.waitfailed")
  /\ UNCHANGED calls

\* tx.wait() resolved: the confirm step is done, the refresh timer is set,
\* the form is cleared and the balances are awaited
transferConfirmed ==
  /\ pc["transfer"] = "wait"
  /\ UpdateSteps(updateStep(updateStep(steps, "confirm", [status |-> "success"]),
                       "refresh", [status |-> "loading"]))
  /\ timers' = timers + 1
  /\ reached' = [reached EXCEPT !["transfer"] = "confirmed"]
  /\ Goto("transfer", "balance")
  /\ Emit("transfer.confirmed", "none")
  /\ UNCHANGED <<activeTab, logVars, appVars, calls, nextTx, nativeVars, searches,
                 usdtRecords, usdtStorage, chainTransfers, reloads, contractInfo>>

\* onBalanceUpdate() and checkTokenBalance() returned (both catch their own
\* errors), and finally
transferReturned ==
  /\ pc["transfer"] = "balance"
  /\ Finish("transfer")
  /\ Emit("transfer.done", "none")
  /\ UNCHANGED <<activeTab, logVars, appVars, hookVars, calls, reached, nextTx, nativeVars,
                 searches, tokenVars, contractInfo>>

\* the 2 s timer of transferToken: loadTokenRecordsFromChain() is started and
\* the refresh step is set to success
refreshTimer ==
  /\ timers > 0
  /\ timers' = timers - 1
  /\ reloads' = reloads + 1
  /\ UpdateSteps(updateStep(steps, "refresh", [status |-> "success"]))
  /\ Emit("transfer.refresh", "none")
  /\ UNCHANGED <<activeTab, logVars, appVars, flowVars, nextTx, nativeVars, searches, usdtRecords,
                 usdtStorage, chainTransfers, contractInfo>>

\* loadTokenRecordsFromChain returned: the records of the account's transfers
\* found in the block window (inWindow) replace the list
loadTokenRecordsFromChain(inWindow) ==
  /\ reloads > 0
  /\ reloads' = reloads - 1
  /\ usdtRecords' = chainRecords(inWindow)
  /\ Emit("reload.done", "none")
  /\ UNCHANGED <<activeTab, logVars, appVars, hookVars, flowVars, nextTx, nativeVars, searches,
                 usdtStorage, chainTransfers, timers, contractInfo>>

\* loadTokenRecordsFromChain's catch: loadUSDTRecordsFromLocal shows the
\* stored records of the account, if anything is stored
loadUSDTRecordsFromLocal ==
  /\ reloads > 0
  /\ reloads' = reloads - 1
  /\ usdtRecords' = IF usdtStorage # <<>>
                    THEN SelectSeq(usdtStorage, LAMBDA r : r.mine)
                    ELSE usdtRecords
  /\ Emit("reload.local", "none")
  /\ UNCHANGED <<activeTab, logVars, appVars, hookVars, flowVars, nextTx, nativeVars, searches,
                 usdtStorage, chainTransfers, timers, contractInfo>>

\* searchTokenTransactionByHash from the call to the await of getTransaction
searchTokenTransactionByHash(typed, wellFormed) ==
  /\ activeTab = "token"
  /\ appPc = "idle"
  /\ IF ~wellFormed
     THEN /\ Emit("tsearch.invalid", "error")
          /\ UNCHANGED searches
     ELSE IF ~signer
     THEN /\ Emit("tsearch.noprovider", "error")
          /\ UNCHANGED searches
     ELSE IF existingRecord(usdtRecords, typed)
     THEN /\ Emit("tsearch.exists", "error")
          /\ UNCHANGED searches
     ELSE /\ searches = {}
          /\ searches' = searches \cup {[typed |-> typed, base |-> usdtRecords]}
          /\ Emit("tsearch.start", "none")
  /\ UNCHANGED <<activeTab, logVars, appVars, hookVars, flowVars, nextTx, nativeVars, tokenVars,
                 contractInfo>>

\* searchTokenTransactionByHash after the lookups found a Transfer log of a
\* supported token: the record carries the hash as it was typed
tokenSearchFound(s, status) ==
  /\ activeTab = "token"
  /\ s \in searches
  /\ Foreign(s.typed.n) \/ s.typed.n \in chainTransfers
  /\ TokenOf(s.typed.n) \in TOKEN_INFO(network)
  /\ LET tokenRecord == USDTRecord(s.typed, status)
     IN /\ usdtRecords' = <<tokenRecord>> \o s.base
        /\ usdtStorage' = saveUSDTRecordsToLocal(usdtStorage, <<tokenRecord>>)
  /\ searches' = searches \ {s}
  /\ Emit("tsearch.added", "success")
  /\ UNCHANGED <<activeTab, logVars, appVars, hookVars, flowVars, nextTx, nativeVars,
                 chainTransfers, timers, reloads, contractInfo>>

\* searchTokenTransactionByHash when the transaction or its receipt is
\* missing or it is no token transfer (warning), or a lookup throws (error)
tokenSearchNone(s, shown) ==
  /\ activeTab = "token"
  /\ s \in searches
  /\ searches' = searches \ {s}
  /\ Emit("tsearch.none", shown)
  /\ UNCHANGED <<activeTab, logVars, appVars, hookVars, flowVars, nextTx, nativeVars, tokenVars,
                 contractInfo>>

\* ----------------------------------------------------------- next-state
NextApp ==
  \/ \E hasEthereum \in BOOLEAN : connectWallet(hasEthereum)
  \/ \E chainId \in Networks : connectWalletResolved(chainId)
  \/ connectWalletRejected
  \/ \E targetNetwork \in Networks : switchNetwork(targetNetwork)
  \/ switchNetworkResolved
  \/ switchNetworkRejected
  \/ \E t \in Tabs : setActiveTab(t)

NextSend ==
  \/ \E toAddress \in Addresses, amount \in Amounts : sendTransaction(toAddress, amount)
  \/ \E dialog \in {"none", "accepted", "declined"} : sendGetCodeResolved(dialog)
  \/ sendGetCodeRejected
  \/ sendRejected
  \/ sendSubmitted
  \/ \E cb \in confirms : confirmWaited(cb)
  \/ \E cb \in confirms : confirmWaitRejected(cb)
  \/ \E cb \in confirms, found \in BOOLEAN : confirmDetails(cb, found)

NextSearch ==
  \/ \E typed \in TypedHashes, wellFormed \in BOOLEAN : searchTransactionByHash(typed, wellFormed)
  \/ \E s \in searches : searchFound(s)
  \/ \E s \in searches : searchNotFound(s)

NextContract ==
  \/ setContractInfo
  \/ callContract
  \/ callRejected
  \/ callSubmitted
  \/ callWaitRejected
  \/ callConfirmed
  \/ callRefreshed

NextApprove ==
  \/ \E amount \in Amounts : approveToken(amount)
  \/ approveRejected
  \/ approveSubmitted
  \/ approveWaitRejected
  \/ approveConfirmed

NextTransfer ==
  \/ \E toAddress \in Addresses, amount \in Amounts : transferToken(toAddress, amount)
  \/ transferRejected
  \/ transferSubmitted
  \/ transferWaitRejected
  \/ transferConfirmed
  \/ transferReturned
  \/ refreshTimer
  \/ \E inWindow \in SUBSET chainTransfers : loadTokenRecordsFromChain(inWindow)
  \/ loadUSDTRecordsFromLocal

NextTokenSearch ==
  \/ \E typed \in TypedHashes, wellFormed \in BOOLEAN : searchTokenTransactionByHash(typed, wellFormed)
  \/ \E s \in searches : tokenSearchFound(s, "confirmed")
  \/ \E s \in searches, shown \in {"warning", "error"} : tokenSearchNone(s, shown)

\* the four flows with their timers and callbacks
Next == NextApp \/ NextSend \/ NextContract \/ NextApprove \/ NextTransfer

Spec == Init /\ [][Next]_vars

\* NativeTransfer's record list: sends, confirmation callbacks, hash searches
NextNative == NextApp \/ NextSend \/ NextSearch

SpecNative == Init /\ [][NextNative]_vars

\* USDTTransfer's record list: transfers, chain reloads, hash searches
NextToken == NextTransfer \/ NextTokenSearch

\* USDTTransfer just mounted with a wallet connected on main net: what Spec
\* reaches by connectWallet and setActiveTab("token")
InitToken ==
  /\ activeTab = "token"
  /\ signer = TRUE
  /\ network = "0x1"
  /\ appPc = "idle"
  /\ steps = <<>>
  /\ isVisible = FALSE
  /\ currentSteps = <<>>
  /\ waits = {}
  /\ pc = [f \in Flows |-> "idle"]
  /\ loading = [f \in Flows |-> FALSE]
  /\ closure = [f \in Flows |-> ""]
  /\ closureRecs = [f \in Flows |-> <<>>]
  /\ calls = [f \in Flows |-> 0]
  /\ reached = [f \in Flows |-> "none"]
  /\ nextTx = 1
  /\ transactions = <<>>
  /\ txStorage = <<>>
  /\ confirms = {}
  /\ searches = {}
  /\ usdtRecords = <<>>
  /\ usdtStorage = <<>>
  /\ chainTransfers = {}
  /\ timers = 0
  /\ reloads = 1
  /\ contractInfo = "empty"
  /\ contractLogs = <<>>
  /\ logQueries = <<>>
  /\ event = "tab"
  /\ notice = "none"

SpecToken == InitToken /\ [][NextToken]_vars

\* ContractCall's log list: the mount query, the buttons, the hash search
NextLogs ==
  \/ \E t \in Tabs : setActiveTab(t)
  \/ \E limit \in {10, 50} : queryContractLogs(limit)
  \/ \E id \in 1..MaxQueries, response \in Responses : logsFieldReturned(id, response)
  \/ \E id \in 1..MaxQueries : logsMetaReturned(id)
  \/ \E wellFormed \in BOOLEAN : queryTransactionByHash(wellFormed)
  \/ \E id \in 1..MaxQueries, response \in Responses : hashFieldReturned(id, response)

SpecLogs == Init /\ [][NextLogs]_vars

\* ------------------------------------------------------------- properties
\* the ids and the statuses of a step list, in list order
Ids(list) == [i \in DOMAIN list |-> list[i].id]
Statuses(list) == [i \in DOMAIN list |-> list[i].status]

\* steps in which a flow's catch block ran after a rejected promise
CatchEvents ==
  {"send.getcodefailed", "send.rejected", "call.rejected", "call.waitfailed",
   "approve.rejected", "approve.waitfailed", "transfer.rejected", "transfer.waitfailed"}
\* steps in which a flow threw before its first await
ThrowEvents == {"send.throw", "approve.throw", "transfer.throw"}
\* steps in which a flow showed a new progress run
RunStartEvents == {"send.start", "call.start", "approve.start", "transfer.start"} \cup ThrowEvents

\* C1: when a flow throws while its progress run is showing, the step that is
\* 'loading' at that moment becomes 'error' with an error message and no
\* other step changes status.
C1_LoadingStepBecomesError ==
  [][event' \in CatchEvents /\ isVisible =>
       \E i \in DOMAIN steps :
          /\ steps[i].status = "loading"
          /\ steps'[i].status = "error"
          /\ steps'[i].error # ""
          /\ \A j \in DOMAIN steps : j # i => steps'[j].status = steps[j].status]_vars

\* C2: in every reachable state at most one step of the progress list is
\* 'loading', and a step is 'success' only if every step before it is.
C2_StepsAdvanceInOrder ==
  /\ Cardinality({i \in DOMAIN steps : steps[i].status = "loading"}) <= 1
  /\ \A i \in DOMAIN steps :
        steps[i].status = "success" => \A j \in 1..(i - 1) : steps[j].status = "success"

\* C3 as stated: every progress run of every flow has exactly the four steps
\* validation, submit, confirm, refresh, and the ids do not change while the
\* run is visible.
C3_FourStepsInEveryRun ==
  [][/\ event' \in RunStartEvents =>
          Ids(steps') = <<"validation", "submit", "confirm", "refresh">>
     /\ event' \notin RunStartEvents /\ isVisible /\ isVisible' =>
          Ids(steps') = Ids(steps)]_vars

\* C3 amended: a run of callContract or transferToken has the four steps
\* validation, submit, confirm, refresh; a run of sendTransaction or
\* approveToken has the three steps validation, submit, confirm; the ids do
\* not change while the run is visible (until a flow shows a new run).
C3_StepsOfEachFlow ==
  [][/\ event' \in {"call.start", "transfer.start", "transfer.throw"} =>
          isVisible' /\ Ids(steps') = <<"validation", "submit", "confirm", "refresh">>
     /\ event' \in {"send.start", "send.throw", "approve.start", "approve.throw"} =>
          isVisible' /\ Ids(steps') = <<"validation", "submit", "confirm">>
     /\ event' \notin RunStartEvents /\ isVisible /\ isVisible' =>
          Ids(steps') = Ids(steps)]_vars

\* C3 witness: an approve run went through all its steps and they are three
C3_ApproveRunHasThreeSteps ==
  /\ event = "approve.done"
  /\ isVisible
  /\ Ids(steps) = <<"validation", "submit", "confirm">>
  /\ Statuses(steps) = <<"success", "success", "success">>

\* C4: every user action that fails with an exception shows an error
\* notification before it ends.
C4_FailureShowsError ==
  [][event' \in CatchEvents \cup ThrowEvents \cup {"connect.rejected", "switch.rejected"} =>
       notice' = "error"]_vars

\* no two records of a list carry the same hash
NoDuplicateHash(list) ==
  \A i, j \in DOMAIN list : i # j => list[i].hash # list[j].hash

\* C5: however sendTransaction, its confirmation callback and
\* searchTransactionByHash interleave, neither 'datachain_transactions' nor
\* the transactions state holds two records with the same hash.
C5_NoDuplicateTransaction ==
  /\ NoDuplicateHash(txStorage)
  /\ NoDuplicateHash(transactions)

\* C5 witness: the confirmation callback replaced the local record of a sent
\* transaction while a searched record is in the list too
C5_ConfirmedBesideSearched ==
  /\ event = "confirm.details"
  /\ txStorage = <<BlockchainTx(Hash(1)), BlockchainTx(Hash(0))>>
  /\ transactions = txStorage

\* C6: 'datachain_usdt_records' never holds two records for the same
\* transaction hash (letter case ignored) and token.
C6_NoDuplicateTokenRecord ==
  \A i, j \in DOMAIN usdtStorage :
     i # j => ~(/\ toLowerCase(usdtStorage[i].hash) = toLowerCase(usdtStorage[j].hash)
                /\ usdtStorage[i].token = usdtStorage[j].token)

\* C7: sendTransaction and transferToken given a recipient that is no valid
\* address (or none) show an error notification and change nothing: no
\* progress run, no call of the signer, the loading flag false, records and
\* local storage as before.
C7_InvalidRecipientRejected ==
  [][event' \in {"send.invalid", "send.incomplete", "transfer.invalid"} =>
       /\ notice' = "error"
       /\ ~loading'["send"] /\ ~loading'["transfer"]
       /\ UNCHANGED <<steps, isVisible, currentSteps, pc, calls, nextTx, confirms,
                      transactions, txStorage, usdtRecords, usdtStorage>>]_vars

\* C7 witness: sendTransaction refused a recipient after an earlier transfer
\* left a record
C7_InvalidAfterRecord ==
  /\ event = "send.invalid"
  /\ notice = "error"
  /\ txStorage # <<>>
  /\ isVisible

\* C8: one invocation of a flow calls the signer at most once: the handler
\* waits for the signer only when this invocation has not called it yet.
C8_AtMostOneSubmission ==
  \A f \in Flows :
     /\ calls[f] <= 1
     /\ pc[f] = "submit" => calls[f] = 0

\* C8 witness: the signer rejected a token transfer and the handler ended
C8_RejectedOnce ==
  /\ event = "transfer.rejected"
  /\ calls["transfer"] = 1
  /\ pc["transfer"] = "idle"

\* steps that continue a flow after a wallet or RPC promise settled (the
\* refresh timer of transferToken is set when tx.wait() has resolved)
PromiseEvents ==
  CatchEvents \cup
  {"send.validated", "send.submitted", "confirm.waited", "confirm.waitfailed",
   "call.submitted", "call.confirmed", "call.done", "approve.submitted", "approve.done",
   "transfer.submitted", "transfer.confirmed", "transfer.refresh"}

BecomesSuccess(id) ==
  /\ \E i \in DOMAIN steps' : steps'[i].id = id /\ steps'[i].status = "success"
  /\ ~\E i \in DOMAIN steps : steps[i].id = id /\ steps[i].status = "success"

\* C10: in callContract the confirm step succeeds only when tx.wait() has
\* resolved, the log query starts only then, the refresh step succeeds only
\* when the log query has returned, and the form is cleared only with all four
\* steps 'success'.
C10_CallContractOrder ==
  [][activeTab = "contract" /\ activeTab' = "contract" =>
       /\ BecomesSuccess("confirm") => pc["call"] = "wait"
       /\ pc'["call"] = "logs" /\ pc["call"] # "logs" =>
             pc["call"] = "wait" /\ reached'["call"] = "confirmed"
       /\ BecomesSuccess("refresh") => pc["call"] = "logs"
       /\ contractInfo = "filled" /\ contractInfo' = "empty" =>
             Statuses(steps') = <<"success", "success", "success", "success">>]_vars

\* C10 witness: a contract call went through and the form was cleared
C10_CallDone ==
  /\ event = "call.done"
  /\ reached["call"] = "refreshed"
  /\ contractInfo = "empty"
  /\ Statuses(steps) = <<"success", "success", "success", "success">>

\* every step of a non-empty list is 'success'
AllSuccess(list) ==
  /\ list # <<>>
  /\ \A i \in DOMAIN list : list[i].status = "success"

\* C11: when every step of a native-transfer or token-transfer run is
\* 'success', the completion callback runs and the bar is hidden in the end:
\* once no handler, timer, callback or wait is outstanding any more, the bar
\* is hidden and the list empty.
C11_CompletedRunIsHidden ==
  /\ \/ activeTab = "native"
     \/ activeTab = "token" /\ Ids(steps) = Ids(transferProgressSteps)
  /\ AllSuccess(steps)
  /\ Quiescent
  /\ waits = {}
  => ~isVisible /\ steps = <<>>

\* C12: once a flow has put a transaction hash on the confirm step, the
\* TransactionProgress component waits for that transaction itself
\* (waitForTransaction(hash, 'confirm') is in flight) and sets the step from
\* the receipt.
C12_ComponentWaitsForHash ==
  [][\A i \in DOMAIN steps' :
        /\ isVisible'
        /\ steps'[i].id = "confirm"
        /\ steps'[i].txHash # NoHash
        /\ i \in DOMAIN steps => steps[i].txHash # steps'[i].txHash
        => [txHash |-> steps'[i].txHash, stepId |-> "confirm"] \in waits']_vars

\* the hashes of the records of a list
Hashes(list) == {list[i].hash : i \in DOMAIN list}

\* the transaction hash the run of a native-transfer list submitted (NoHash
\* before the submission)
SubmittedHash(list) ==
  IF \E i \in DOMAIN list : list[i].id = "submit"
  THEN list[CHOOSE i \in DOMAIN list : list[i].id = "submit"].txHash
  ELSE NoHash

\* C13: on the native tab the confirm step is 'success' only if the
\* transaction this list's run submitted has been confirmed, and a
\* confirmation (or its failure) of a transaction changes the list only if the
\* list's run submitted that transaction.
C13_ConfirmBelongsToRun ==
  [][activeTab' = "native" =>
       /\ \A i \in DOMAIN steps' :
             steps'[i].id = "confirm" /\ steps'[i].status = "success" =>
                /\ SubmittedHash(steps') # NoHash
                /\ ~\E cb \in confirms' :
                      cb.hash = SubmittedHash(steps') /\ cb.stage = "wait"
       /\ event' \in {"confirm.waited", "confirm.waitfailed"} /\ steps' # steps =>
             \E cb \in confirms : cb \notin confirms' /\ cb.hash = SubmittedHash(steps)]_vars

\* C14: a hash that is in the native transaction list stays in it, in the
\* transactions state and in 'datachain_transactions'.
C14_RecordsAreNeverDropped ==
  [][/\ Hashes(transactions) \subseteq Hashes(transactions')
     /\ Hashes(txStorage) \subseteq Hashes(txStorage')]_vars

\* C15: when tx.wait() of a token transfer rejects, the displayed records are
\* those displayed before with the pending records of the account (the one
\* transferToken added) set to 'failed' and all others unchanged.
C15_PendingRecordFails ==
  [][event' = "transfer.waitfailed" => usdtRecords' = failedRecords(usdtRecords)]_vars

\* C16: in transferToken the refresh step becomes 'success' only in a step
\* that completes a reload of the on-chain records, never in the step that
\* starts it.
C16_RefreshAfterReload ==
  [][activeTab' = "token" /\ BecomesSuccess("refresh") => reloads' < reloads]_vars

\* the number of records of a list with hash h
CountHash(list, h) == Cardinality({i \in DOMAIN list : list[i].hash = h})

\* the list starts with a record of hash h and source src and holds no other
\* record of that hash
HeadIs(list, h, src) ==
  /\ list # <<>>
  /\ list[1].hash = h
  /\ list[1].source = src
  /\ CountHash(list, h) = 1

C18_DeclinedDialogDoesNothing ==
  [][event' = "send.declined" =>
       /\ pc'["send"] = "idle"
       /\ ~loading'["send"]
       /\ calls'["send"] = 0
       /\ notice' # "error"
       /\ UNCHANGED <<nextTx, transactions, txStorage, confirms>>]_vars

\* C18 witness: the dialog was declined and the handler has ended
C18_Declined ==
  /\ event = "send.declined"
  /\ pc["send"] = "idle"
  /\ ~loading["send"]
  /\ isVisible

\* C19: whenever no action is executing and no confirmation wait or timer is
\* outstanding, the visible progress list has no step in status 'loading'.
C19_NoLoadingStepAtRest ==
  /\ \A f \in Flows : ~loading[f]
  /\ Quiescent
  /\ isVisible
  => \A i \in DOMAIN steps : steps[i].status # "loading"

\* C20: a flow's loading flag is true exactly while its handler is between the
\* start of its try block and its return.
C20_LoadingFlagFollowsHandler ==
  \A f \in Flows : loading[f] <=> pc[f] # "idle"

\* C20 witness: a contract call ended by an exception with its flag false
C20_FlagFalseAfterException ==
  /\ event = "call.waitfailed"
  /\ pc["call"] = "idle"
  /\ ~loading["call"]

\* the candidate field names, in the order CONTRACT_INFO and the claim give them
CandidateFields ==
  <<"instructors", "instructorEntities", "instructor", "events", "logs", "instructorEvents">>

AllReturned == logQueries # <<>> /\ \A id \in DOMAIN logQueries : logQueries[id].at = 0

\* C22: once every queryContractLogs and queryTransactionByHash call that was
\* started (mount query, refresh, load-more, post-call refresh, hash search)
\* has returned, contractLogs is what the call started last has set.
C22_LastStartedCallWins ==
  AllReturned => contractLogs = logQueries[Len(logQueries)].result

====
